---- MODULE Spec2Model ----
(***************************************************************************)
(* libtorrent::buffer (include/libtorrent/buffer.hpp): a heap-backed,      *)
(* move-only byte buffer, its interval views, and the allocator it calls.  *)
(*                                                                         *)
(* The model is the build with TORRENT_ASSERT enabled: a failing assertion *)
(* aborts the program (aborted = TRUE, a terminal state).                  *)
(*                                                                         *)
(* std::size_t values are natural numbers.  They are written in base 8,    *)
(* [w |-> v \div 8, r |-> v % 8], because the sizes the constructor        *)
(* accepts reach 2^31 after rounding, which is one more than the largest   *)
(* integer the model checker computes with.  No size of the model reaches  *)
(* 2^32, so no std::size_t wraps, whatever its width.                      *)
(***************************************************************************)
EXTENDS Integers, Sequences, FiniteSets

VARIABLES
    bufs,      \* buffer objects: [alive, m_begin, m_size] per storage slot
    heap,      \* std::malloc's blocks, in allocation order
    view,      \* the buffer::interval the caller currently holds
    last,      \* the call made last, its arguments and its outcome
    portable,  \* TRUE: the build has no allocator introspection (the #else branch)
    aborted    \* TRUE once a TORRENT_ASSERT has failed

vars == <<bufs, heap, view, last, portable, aborted>>

----------------------------------------------------------------------------
(* Bounds of the model *)

NumBuffers == 3
MaxAllocs == 3

Buffers == 1..NumBuffers

----------------------------------------------------------------------------
(* std::size_t arithmetic *)

Base == 8

Sz(n) == [w |-> n \div Base, r |-> n % Base]

SzZero == Sz(0)

SzAdd(x, y) ==
    LET s == x.r + y.r
    IN  [w |-> x.w + y.w + (s \div Base), r |-> s % Base]

\* x - y, for y <= x
SzSub(x, y) ==
    IF x.r >= y.r
    THEN [w |-> x.w - y.w, r |-> x.r - y.r]
    ELSE [w |-> x.w - y.w - 1, r |-> x.r + Base - y.r]

SzLt(x, y) == x.w < y.w \/ (x.w = y.w /\ x.r < y.r)

SzLe(x, y) == ~SzLt(y, x)

\* x & ~std::size_t(0x7): the low three bits are the base-8 digit r
SzMask7(x) == [w |-> x.w, r |-> 0]

\* int(x), for x that fits an int
SzToInt(x) == x.w * Base + x.r

INT32_MAX == 2147483647
INT_MAX == 2147483647

----------------------------------------------------------------------------
(* The allocator: std::malloc, std::free and the usable-size query *)

NullPtr == 0

\* A block of the heap: its usable size, how often it was passed to std::free,
\* and the bytes written to its start (the rest is uninitialized).
Block(n) == [size |-> n, frees |-> 0, bytes |-> <<>>]

\* What a freed block keeps: only that it was freed, and how often.
FreedBlock(k) == [size |-> SzZero, frees |-> k, bytes |-> <<>>]

Live(h, p) == p # NullPtr /\ p <= Len(h) /\ h[p].frees = 0

\* std::free(p): nothing for a null pointer
Free(h, p) ==
    IF p = NullPtr THEN h
    ELSE [h EXCEPT ![p] = FreedBlock(h[p].frees + 1)]

\* malloc_usable_size / _msize / malloc_size of a block malloc(n) returned: at
\* least n.  Without introspection the constructor stores n itself.
UsableSize(n, slack) == IF portable THEN n ELSE SzAdd(n, Sz(slack))

\* std::malloc(n) when it succeeds: a new block, never an address in use
Malloc(h, n, slack) == Append(h, Block(UsableSize(n, slack)))

----------------------------------------------------------------------------
(* buffer *)

\* round_up8 without its + 7: rounds down
round_down8(v) == SzMask7(v)

round_up8(v) == SzMask7(SzAdd(v, Sz(7)))

\* storage that holds no buffer object
NoBuffer == [alive |-> FALSE, m_begin |-> NullPtr, m_size |-> SzZero]

\* the default member initializers: m_begin = nullptr, m_size = 0
Buffer(p, n) == [alive |-> TRUE, m_begin |-> p, m_size |-> n]

\* buffer(std::size_t size): the outcome, the object and the heap it leaves.
\* mallocOk: whether std::malloc returns a block.
Ctor(size, slack, mallocOk) ==
    IF ~SzLt(size, Sz(INT32_MAX))
    THEN [out |-> "assert", buf |-> NoBuffer, heap |-> heap]
    ELSE IF size = SzZero
    THEN [out |-> "ok", buf |-> Buffer(NullPtr, SzZero), heap |-> heap]
    ELSE IF ~mallocOk
    THEN [out |-> "bad_alloc", buf |-> NoBuffer, heap |-> heap]
    ELSE LET n == round_up8(size)
             h == Malloc(heap, n, slack)
         IN  [out |-> "ok", buf |-> Buffer(Len(h), h[Len(h)].size), heap |-> h]

\* memcpy that stops one byte early
memcpy_short(h, dst, src, n) == [h EXCEPT ![dst].bytes = SubSeq(src, 1, n - 1)]

\* memcpy(dst, src, n): the first n bytes of src are the block's first n bytes
Memcpy(h, dst, src, n) == [h EXCEPT ![dst].bytes = SubSeq(src, 1, n)]

\* (std::min)(initialize.size(), size)
MinLen(len, size) == IF SzLe(Sz(len), size) THEN len ELSE SzToInt(size)

\* the record of a call: its name, the buffers it names (a is *this), its
\* size, initializer and index arguments, its outcome and the int it returned
Call(op, a, b, size, init, idx, res, val) ==
    [op |-> op, a |-> a, b |-> b, size |-> size, init |-> init, idx |-> idx,
     res |-> res, val |-> val]

\* The caller holds no interval.  src: the buffer whose data() returned the
\* interval (0: none); reseated: whether that buffer was since swapped with, or
\* move-assigned from, another buffer.
NoView == [src |-> 0, blk |-> NullPtr, begin |-> SzZero, end |-> SzZero,
           reseated |-> FALSE]

\* The caller drops the interval of a buffer that is moved from or destroyed,
\* and notes that the interval's buffer was given other contents.
Moved(b) == IF view.src = b THEN NoView ELSE view
Reseated(S) == IF view.src \in S THEN [view EXCEPT !.reseated = TRUE] ELSE view

\* buffer(std::size_t size, array_view<char const> initialize), after the
\* delegated buffer(size) returned c
CtorFrom(c, size, init) ==
    IF ~SzLe(Sz(Len(init)), size)
    THEN [out |-> "assert", buf |-> c.buf, heap |-> c.heap]
    ELSE IF Len(init) > 0
    THEN [out |-> "ok", buf |-> c.buf,
          heap |-> Memcpy(c.heap, c.buf.m_begin, init, MinLen(Len(init), size))]
    ELSE [out |-> "ok", buf |-> c.buf, heap |-> c.heap]

\* buffer(buffer&& b) without its b.m_size = 0
move_construct_keeps_size(bs, dst, src) ==
    [bs EXCEPT ![dst] = Buffer(bs[src].m_begin, bs[src].m_size),
               ![src] = Buffer(NullPtr, bs[src].m_size)]

\* buffer(buffer&& b): the objects after dst is move-constructed from src
move_construct(bs, dst, src) ==
    [bs EXCEPT ![dst] = Buffer(bs[src].m_begin, bs[src].m_size),
               ![src] = Buffer(NullPtr, SzZero)]

\* operator=(buffer&& b) without its b.m_begin = nullptr and b.m_size = 0
move_assign_keeps_source(bs, h, dst, src) ==
    IF src = dst
    THEN [bufs |-> bs, heap |-> h]
    ELSE [bufs |-> [bs EXCEPT ![dst] = Buffer(bs[src].m_begin, bs[src].m_size)],
          heap |-> Free(h, bs[dst].m_begin)]

\* operator=(buffer&& b) without its test for &b == this
move_assign_unguarded(bs, h, dst, src) ==
    [bufs |-> [bs EXCEPT ![dst] = Buffer(bs[src].m_begin, bs[src].m_size),
                         ![src] = Buffer(NullPtr, SzZero)],
     heap |-> Free(h, bs[dst].m_begin)]

\* operator=(buffer&& b): the objects and the heap after dst = std::move(src)
move_assign(bs, h, dst, src) ==
    IF src = dst
    THEN [bufs |-> bs, heap |-> h]
    ELSE [bufs |-> [bs EXCEPT ![dst] = Buffer(bs[src].m_begin, bs[src].m_size),
                              ![src] = Buffer(NullPtr, SzZero)],
          heap |-> Free(h, bs[dst].m_begin)]

\* ~buffer() without its std::free
destroy_leaks(bs, h, b) == [bufs |-> [bs EXCEPT ![b] = NoBuffer], heap |-> h]

\* ~buffer()
destroy(bs, h, b) ==
    [bufs |-> [bs EXCEPT ![b] = NoBuffer], heap |-> Free(h, bs[b].m_begin)]

\* swap(buffer& b) without its swap(m_size, b.m_size)
swap_pointers_only(bs, a, b) ==
    [bs EXCEPT ![a] = Buffer(bs[b].m_begin, bs[a].m_size),
               ![b] = Buffer(bs[a].m_begin, bs[b].m_size)]

\* swap(buffer& b)
swap(bs, a, b) ==
    [bs EXCEPT ![a] = Buffer(bs[b].m_begin, bs[b].m_size),
               ![b] = Buffer(bs[a].m_begin, bs[a].m_size)]

\* data() with an end one byte too far
data_past_end(bs, b) ==
    [src |-> b, blk |-> bs[b].m_begin, begin |-> SzZero,
     end |-> SzAdd(bs[b].m_size, Sz(1)), reseated |-> FALSE]

\* data(): interval(m_begin, m_begin + m_size)
data(bs, b) ==
    [src |-> b, blk |-> bs[b].m_begin, begin |-> SzZero, end |-> bs[b].m_size,
     reseated |-> FALSE]

\* interval(char* b, char* e): two pointers into block blk, begin and end
\* being their offsets from its start
interval(blk, b, e) ==
    [src |-> 0, blk |-> blk, begin |-> b, end |-> e, reseated |-> FALSE]

\* interval::left(), const_interval::left(): the outcome and the int returned
left(v) ==
    IF ~SzLe(v.begin, v.end)
    THEN [out |-> "assert", val |-> 0]
    ELSE IF ~SzLt(SzSub(v.end, v.begin), Sz(INT_MAX))
    THEN [out |-> "assert", val |-> 0]
    ELSE [out |-> "ok", val |-> SzToInt(SzSub(v.end, v.begin))]

\* Whether begin + index is a pointer the language defines: one into v's block
\* or one past its end (for the null pointer, only begin + 0).
PointsIntoBlock(v, index) ==
    IF v.blk = NullPtr THEN index = 0
    ELSE IF index < 0 THEN SzLe(Sz(-index), v.begin)
    ELSE SzLe(SzAdd(v.begin, Sz(index)), heap[v.blk].size)

\* begin + index, where defined
Offset(v, index) ==
    IF index < 0 THEN SzSub(v.begin, Sz(-index)) ELSE SzAdd(v.begin, Sz(index))

\* interval::operator[](int index), const_interval::operator[](int index):
\* whether TORRENT_ASSERT(begin + index < end) passes.  undef: what the
\* comparison yields when begin + index is not a pointer the language defines.
index_check(v, index, undef) ==
    IF PointsIntoBlock(v, index) THEN SzLt(Offset(v, index), v.end) ELSE undef

\* buffer::operator[](std::size_t i): whether TORRENT_ASSERT(i < size()) passes
buffer_index_check(bs, b, i) == SzLt(i, bs[b].m_size)

----------------------------------------------------------------------------
(* The calls a program makes *)

Construct(b, size, slack, mallocOk) ==
    /\ ~aborted
    /\ ~bufs[b].alive
    /\ mallocOk => Len(heap) < MaxAllocs
    /\ LET c == Ctor(size, slack, mallocOk)
       IN  /\ bufs' = [bufs EXCEPT ![b] = c.buf]
           /\ heap' = c.heap
           /\ aborted' = (c.out = "assert")
           /\ last' = Call("construct", b, 0, size, <<>>, 0, c.out, 0)
    /\ UNCHANGED <<view, portable>>

ConstructFrom(b, size, init, slack, mallocOk) ==
    /\ ~aborted
    /\ ~bufs[b].alive
    /\ mallocOk => Len(heap) < MaxAllocs
    /\ LET c == Ctor(size, slack, mallocOk)
           d == IF c.out = "ok" THEN CtorFrom(c, size, init) ELSE c
       IN  /\ bufs' = [bufs EXCEPT ![b] = d.buf]
           /\ heap' = d.heap
           /\ aborted' = (d.out = "assert")
           /\ last' = Call("construct_from", b, 0, size, init, 0, d.out, 0)
    /\ UNCHANGED <<view, portable>>

MoveConstruct(dst, src) ==
    /\ ~aborted
    /\ ~bufs[dst].alive
    /\ bufs[src].alive
    /\ bufs' = move_construct(bufs, dst, src)
    /\ view' = Moved(src)
    /\ last' = Call("move_construct", dst, src, SzZero, <<>>, 0, "ok", 0)
    /\ UNCHANGED <<heap, portable, aborted>>

MoveAssign(dst, src) ==
    /\ ~aborted
    /\ bufs[dst].alive
    /\ bufs[src].alive
    /\ LET m == move_assign(bufs, heap, dst, src)
       IN  /\ bufs' = m.bufs
           /\ heap' = m.heap
    /\ view' = IF src = dst THEN view
               ELSE IF view.src = src THEN NoView
               ELSE Reseated({dst})
    /\ last' = Call("move_assign", dst, src, SzZero, <<>>, 0, "ok", 0)
    /\ UNCHANGED <<portable, aborted>>

Destroy(b) ==
    /\ ~aborted
    /\ bufs[b].alive
    /\ LET m == destroy(bufs, heap, b)
       IN  /\ bufs' = m.bufs
           /\ heap' = m.heap
    /\ view' = Moved(b)
    /\ last' = Call("destroy", b, 0, SzZero, <<>>, 0, "ok", 0)
    /\ UNCHANGED <<portable, aborted>>

Swap(a, b) ==
    /\ ~aborted
    /\ bufs[a].alive
    /\ bufs[b].alive
    /\ bufs' = swap(bufs, a, b)
    /\ view' = IF a = b THEN view ELSE Reseated({a, b})
    /\ last' = Call("swap", a, b, SzZero, <<>>, 0, "ok", 0)
    /\ UNCHANGED <<heap, portable, aborted>>

Data(b) ==
    /\ ~aborted
    /\ bufs[b].alive
    /\ view' = data(bufs, b)
    /\ last' = Call("data", b, 0, SzZero, <<>>, 0, "ok", 0)
    /\ UNCHANGED <<bufs, heap, portable, aborted>>

MakeInterval(blk, b, e) ==
    /\ ~aborted
    /\ Live(heap, blk)
    /\ SzLe(b, heap[blk].size)
    /\ SzLe(e, heap[blk].size)
    /\ view' = interval(blk, b, e)
    /\ last' = Call("interval", 0, 0, SzZero, <<>>, 0, "ok", 0)
    /\ UNCHANGED <<bufs, heap, portable, aborted>>

Left ==
    /\ ~aborted
    /\ view.blk = NullPtr \/ Live(heap, view.blk)
    /\ LET r == left(view)
       IN  /\ last' = Call("left", view.src, 0, SzZero, <<>>, 0, r.out, r.val)
           /\ aborted' = (r.out = "assert")
    /\ UNCHANGED <<bufs, heap, view, portable>>

Index(index, undef) ==
    /\ ~aborted
    /\ view.blk = NullPtr \/ Live(heap, view.blk)
    /\ LET pass == index_check(view, index, undef)
       IN  /\ last' = Call("index", view.src, 0, SzZero, <<>>, index,
                           IF pass THEN "ok" ELSE "assert", 0)
           /\ aborted' = ~pass
    /\ UNCHANGED <<bufs, heap, view, portable>>

BufferIndex(b, i) ==
    /\ ~aborted
    /\ bufs[b].alive
    /\ LET pass == buffer_index_check(bufs, b, i)
       IN  /\ last' = Call("buffer_index", b, 0, i, <<>>, 0,
                           IF pass THEN "ok" ELSE "assert", 0)
           /\ aborted' = ~pass
    /\ UNCHANGED <<bufs, heap, view, portable>>

----------------------------------------------------------------------------
(* The program that constructs, moves, swaps and destroys buffers *)

\* The sizes asked for, what the allocator adds to them, and the initializer.
\* What an initializer holds does not matter to who owns which block; the
\* initializers that hold bytes are those of SizingSpec below.
ReqSizes == {Sz(n) : n \in {0, 9}}
Slacks == {0, 8}
Inits == {<<>>}

Init ==
    /\ bufs = [b \in Buffers |-> NoBuffer]
    /\ heap = <<>>
    /\ view = NoView
    /\ last = Call("none", 0, 0, SzZero, <<>>, 0, "ok", 0)
    /\ portable \in BOOLEAN
    /\ aborted = FALSE

Next ==
    \/ \E b \in Buffers, size \in ReqSizes, slack \in Slacks, ok \in BOOLEAN :
          Construct(b, size, slack, ok)
    \/ \E b \in Buffers, size \in ReqSizes, init \in Inits, slack \in Slacks,
          ok \in BOOLEAN :
          ConstructFrom(b, size, init, slack, ok)
    \/ \E dst, src \in Buffers : MoveConstruct(dst, src)
    \/ \E dst, src \in Buffers : MoveAssign(dst, src)
    \/ \E a, b \in Buffers : Swap(a, b)
    \/ \E b \in Buffers : Destroy(b)

Spec == Init /\ [][Next]_vars

----------------------------------------------------------------------------
(* The same program, holding an interval that data() returned.  It has one *)
(* buffer fewer: the interval's buffer and the others it meets.            *)

ViewBuffers == 1..(NumBuffers - 1)

ViewNext ==
    \/ \E b \in ViewBuffers, size \in ReqSizes, slack \in Slacks, ok \in BOOLEAN :
          Construct(b, size, slack, ok)
    \/ \E b \in ViewBuffers, size \in ReqSizes, init \in Inits, slack \in Slacks,
          ok \in BOOLEAN :
          ConstructFrom(b, size, init, slack, ok)
    \/ \E dst, src \in ViewBuffers : MoveConstruct(dst, src)
    \/ \E dst, src \in ViewBuffers : MoveAssign(dst, src)
    \/ \E a, b \in ViewBuffers : Swap(a, b)
    \/ \E b \in ViewBuffers : Destroy(b)
    \/ \E b \in ViewBuffers : Data(b)

ViewSpec == Init /\ [][ViewNext]_vars

----------------------------------------------------------------------------
(* One buffer at a time, of every size around the limits, and its intervals *)

EdgeSizes ==
    {Sz(n) : n \in {0, 1, 7, 8, 9, 16, 1000, INT32_MAX - 15, INT32_MAX - 8,
                    INT32_MAX - 7, INT32_MAX - 6, INT32_MAX - 1, INT32_MAX}}
EdgeSlacks == {0, 1, 8}
EdgeInits == {<<>>, <<5>>, <<5, 6>>, <<0, 1, 2, 3, 4, 5, 6, 7, 8, 9>>}
Offsets == {Sz(n) : n \in {0, 4, 8}}

\* the indexes tried on interval v: around its begin and around its end
Indexes(v) ==
    {-1, 0, 1} \cup
    (IF SzLe(v.begin, v.end) /\ SzLe(SzSub(v.end, v.begin), Sz(INT_MAX))
     THEN {SzToInt(SzSub(v.end, v.begin)) - 1, SzToInt(SzSub(v.end, v.begin))}
     ELSE {})

\* the indexes tried on a buffer of size n: the first, the last, one past it
BufferIndexes(n) ==
    {SzZero, n} \cup (IF n # SzZero THEN {SzSub(n, Sz(1))} ELSE {})

SizingNext ==
    \/ \E size \in EdgeSizes, slack \in EdgeSlacks, ok \in BOOLEAN :
          Construct(1, size, slack, ok)
    \/ \E size \in EdgeSizes, init \in EdgeInits, slack \in EdgeSlacks,
          ok \in BOOLEAN :
          ConstructFrom(1, size, init, slack, ok)
    \/ Destroy(1)
    \/ Data(1)
    \/ \E blk \in 1..MaxAllocs, b, e \in Offsets : MakeInterval(blk, b, e)
    \/ Left
    \/ \E index \in Indexes(view), undef \in BOOLEAN : Index(index, undef)
    \/ \E i \in BufferIndexes(bufs[1].m_size) : BufferIndex(1, i)

SizingSpec == Init /\ [][SizingNext]_vars

----------------------------------------------------------------------------
(* Ownership of allocations *)

Alive == {b \in Buffers : bufs[b].alive}
Blocks == 1..Len(heap)
Holders(p) == {b \in Alive : bufs[b].m_begin = p}

RECURSIVE SumFrees(_)
SumFrees(h) == IF h = <<>> THEN 0 ELSE h[1].frees + SumFrees(Tail(h))

\* what an allocation-tracking harness counts: the allocations made minus the
\* frees of non-null pointers
Outstanding == Len(heap) - SumFrees(heap)

\* Every block was freed at most once, no block has two holders, a block is
\* live exactly while a buffer holds it, and nothing is outstanding once no
\* buffer is left.
Owned ==
    /\ \A p \in Blocks : heap[p].frees <= 1
    /\ \A a, b \in Alive :
          a # b /\ bufs[a].m_begin # NullPtr => bufs[a].m_begin # bufs[b].m_begin
    /\ \A p \in Blocks : heap[p].frees = 0 <=> Cardinality(Holders(p)) = 1
    /\ \A b \in Alive : bufs[b].m_begin \in Blocks \cup {NullPtr}
    /\ Alive = {} => Outstanding = 0

\* The step is a move-assignment onto another buffer that held a block: that
\* block, and no other, is freed once more, and none is allocated.
AssignFreesDestination ==
    (/\ last'.op = "move_assign"
     /\ last'.a # last'.b
     /\ bufs[last'.a].m_begin # NullPtr)
    => /\ Len(heap') = Len(heap)
       /\ \A p \in Blocks :
             heap'[p].frees =
                heap[p].frees + (IF p = bufs[last'.a].m_begin THEN 1 ELSE 0)

\* C1: after any sequence of constructions, move-constructions,
\* move-assignments (self-assignments too), swaps and destructions, every
\* allocation is released exactly once: none is freed twice, no two buffers
\* hold the same block, a move-assignment onto a non-empty buffer frees exactly
\* the block that buffer held, and once every buffer is destroyed the
\* allocations minus the frees are zero.
C1_ReleasedExactlyOnce == []Owned /\ [][AssignFreesDestination]_vars

\* As many blocks as the heap gives were allocated and every buffer has been
\* destroyed since: each block was freed once.
C1_Witness ==
    /\ Len(heap) = MaxAllocs
    /\ Alive = {}
    /\ last.op = "destroy"
    /\ \A p \in Blocks : heap[p].frees = 1

\* C2: every buffer, after whichever call, has size 0 exactly when its data
\* pointer is null.
C2_EmptyIffNull ==
    \A b \in Alive : bufs[b].m_size = SzZero <=> bufs[b].m_begin = NullPtr

\* A move-assignment between two non-empty buffers has just emptied its source
\* and filled its destination.
C2_Witness ==
    /\ last.op = "move_assign"
    /\ last.a # last.b
    /\ bufs[last.b].m_begin = NullPtr
    /\ bufs[last.a].m_begin # NullPtr
    /\ \E p \in Blocks : heap[p].frees = 1

----------------------------------------------------------------------------
(* Moves and swaps *)

\* The step moves buffer last'.b into another buffer last'.a, by construction
\* or by assignment: the source is left empty, the destination has the size
\* and the data pointer the source had, every other buffer is as it was.
MoveTransfers ==
    (/\ last'.op \in {"move_construct", "move_assign"}
     /\ last'.a # last'.b)
    => /\ bufs'[last'.b] = Buffer(NullPtr, SzZero)
       /\ bufs'[last'.a].alive
       /\ bufs'[last'.a].m_size = bufs[last'.b].m_size
       /\ bufs'[last'.a].m_begin = bufs[last'.b].m_begin
       /\ \A o \in Buffers \ {last'.a, last'.b} : bufs'[o] = bufs[o]

\* C5: move-assigning b1 into a distinct b2, or move-constructing b2 from b1,
\* leaves b1 empty, gives b2 the size and the data address b1 had, and changes
\* no other buffer.
C5_MoveEmptiesSource == [][MoveTransfers]_vars

\* A non-empty buffer was just move-assigned onto another non-empty buffer
\* while a third buffer held a block of its own.
C5_Witness ==
    /\ last.op = "move_assign"
    /\ last.a # last.b
    /\ bufs[last.a].m_begin # NullPtr
    /\ \E p \in Blocks : heap[p].frees = 1
    /\ \E o \in Alive \ {last.a, last.b} : bufs[o].m_begin # NullPtr

\* The step move-assigns a buffer onto itself: no buffer and no block changes.
SelfMoveKeeps ==
    (last'.op = "move_assign" /\ last'.a = last'.b)
    => bufs' = bufs /\ heap' = heap

\* The step destroys a buffer that held a block: the block has then been
\* freed exactly once.
DestroyFreesOnce ==
    (last'.op = "destroy" /\ bufs[last'.a].m_begin # NullPtr)
    => heap'[bufs[last'.a].m_begin].frees = 1

\* C6: move-assigning a buffer onto itself is a no-op, its pointer and size
\* unchanged and its block not freed, and a later destruction frees that block
\* exactly once.
C6_SelfMoveNoOp == [][SelfMoveKeeps /\ DestroyFreesOnce]_vars

\* A non-empty buffer was just move-assigned onto itself.
C6_Witness ==
    /\ last.op = "move_assign"
    /\ last.a = last.b
    /\ bufs[last.a].m_begin # NullPtr
    /\ heap[bufs[last.a].m_begin].frees = 0

\* The step swaps two buffers: each has the pointer and the size the other
\* had, the heap and every other buffer are as they were.
SwapExchanges ==
    last'.op = "swap"
    => /\ bufs'[last'.a] = bufs[last'.b]
       /\ bufs'[last'.b] = bufs[last'.a]
       /\ heap' = heap
       /\ \A o \in Buffers \ {last'.a, last'.b} : bufs'[o] = bufs[o]

\* Swapping any two buffers twice gives back the buffers there were.
SwapTwiceRestores ==
    \A a, b \in Alive : swap(swap(bufs, a, b), a, b) = bufs

\* C8: swap(a, b) exchanges the data pointers and the sizes of a and b, each
\* pointer with its size, allocates and frees nothing, leaves every other
\* buffer unchanged, and done twice restores both buffers.
C8_SwapSymmetry == [][SwapExchanges]_vars /\ []SwapTwiceRestores

\* Two buffers of different sizes were just swapped.
C8_Witness ==
    /\ last.op = "swap"
    /\ last.a # last.b
    /\ bufs[last.a].m_begin # NullPtr
    /\ bufs[last.b].m_begin # NullPtr
    /\ bufs[last.a].m_size # bufs[last.b].m_size

----------------------------------------------------------------------------
(* Intervals of a buffer *)

\* [begin, end) is empty at the null pointer, or lies in a block not yet freed
ViewValid ==
    \/ view.blk = NullPtr /\ view.begin = SzZero /\ view.end = SzZero
    \/ /\ Live(heap, view.blk)
       /\ SzLe(view.begin, view.end)
       /\ SzLe(view.end, heap[view.blk].size)

----------------------------------------------------------------------------
(* Sizes *)

\* the least multiple of 8 that is at least v
NextMultipleOf8(v) == IF v.r = 0 THEN v ELSE [w |-> v.w + 1, r |-> 0]

Constructors == {"construct", "construct_from"}

\* Buffer b is what constructing with size n may leave: empty for n = 0, else
\* a new block whose reported size is at least n rounded up to a multiple of 8,
\* and exactly that in the build without allocator introspection.
BuiltWithSize(b, n) ==
    IF n = SzZero
    THEN bufs[b] = Buffer(NullPtr, SzZero)
    ELSE /\ bufs[b].alive
         /\ bufs[b].m_begin = Len(heap)
         /\ Live(heap, bufs[b].m_begin)
         /\ heap[bufs[b].m_begin].size = bufs[b].m_size
         /\ SzLe(NextMultipleOf8(n), bufs[b].m_size)
         /\ portable => bufs[b].m_size = NextMultipleOf8(n)

\* The step is a construction: it allocates nothing for size 0, and one block
\* if it succeeds for another size.
ConstructAllocates ==
    last'.op \in Constructors
    => /\ last'.size = SzZero => heap' = heap
       /\ (last'.size # SzZero /\ last'.res = "ok") => Len(heap') = Len(heap) + 1

\* C7: a successful construction with requestedSize > 0 yields a size() of at
\* least requestedSize rounded up to the next multiple of 8, whatever usable
\* size (at least the size asked for) the allocator reports, and exactly that
\* under the portable fallback; with requestedSize = 0 the buffer is empty and
\* nothing is allocated.
C7_RoundedUpSize ==
    /\ []((last.op \in Constructors /\ last.res = "ok")
          => BuiltWithSize(last.a, last.size))
    /\ [][ConstructAllocates]_vars

\* A buffer of a requested size that is no multiple of 8 was just constructed
\* with an allocator that reported more than was asked for.
C7_Witness ==
    /\ last.op = "construct"
    /\ last.res = "ok"
    /\ last.size.r # 0
    /\ SzLt(NextMultipleOf8(last.size), bufs[last.a].m_size)

\* C9: constructing from (requestedSize, initializer) with an initializer no
\* longer than requestedSize yields a buffer built as by the construction from
\* requestedSize alone whose first min(initializer length, requestedSize)
\* bytes are the initializer's, in order; a longer initializer is a
\* precondition violation; an empty initializer copies nothing, also when
\* requestedSize is 0 and the data pointer is null.
C9_CopiesPrefix ==
    last.op = "construct_from"
    => LET b == last.a
           n == last.size
           k == Len(last.init)
           copied == IF SzLe(Sz(k), n) THEN k ELSE SzToInt(n)
       IN  /\ (SzLe(Sz(k), n) /\ last.res = "ok")
              => /\ BuiltWithSize(b, n)
                 /\ copied > 0
                    => /\ bufs[b].m_begin # NullPtr
                       /\ Len(heap[bufs[b].m_begin].bytes) >= copied
                       /\ SubSeq(heap[bufs[b].m_begin].bytes, 1, copied)
                             = SubSeq(last.init, 1, copied)
                 /\ k = 0
                    => \/ bufs[b].m_begin = NullPtr
                       \/ heap[bufs[b].m_begin].bytes = <<>>
           /\ SzLt(n, Sz(k)) => last.res \in {"assert", "bad_alloc"}
           /\ (SzLt(n, Sz(k)) /\ last.res = "assert") => aborted

\* A buffer was just constructed from size 16 and a ten-byte initializer.
C9_Witness ==
    /\ last.op = "construct_from"
    /\ last.res = "ok"
    /\ last.size = Sz(16)
    /\ Len(last.init) = 10
    /\ heap[bufs[last.a].m_begin].bytes = last.init

\* C4: for every buffer of size N that a construction accepted by the size
\* precondition produces, data().left() returns N without failing either of
\* its assertions, indexing the buffer at N - 1 passes the bounds check and at
\* N fails it, and the empty buffer's data() is (null, null) with left() = 0.
C4_LeftIsSize ==
    /\ \A b \in Alive :
          LET v == data(bufs, b)
              n == bufs[b].m_size
          IN  /\ left(v).out = "ok"
              /\ Sz(left(v).val) = n
              /\ n # SzZero => /\ buffer_index_check(bufs, b, SzSub(n, Sz(1)))
                               /\ ~buffer_index_check(bufs, b, n)
              /\ n = SzZero => /\ v.blk = NullPtr
                               /\ v.begin = SzZero
                               /\ v.end = SzZero
                               /\ left(v).val = 0
    /\ (last.op = "left" /\ view.src # 0 /\ view = data(bufs, view.src))
       => last.res = "ok" /\ Sz(last.val) = bufs[view.src].m_size

\* C10: for an interval with begin <= end, every index that passes the check
\* of operator[], begin + index < end, addresses a byte inside [begin, end).
\* Only the calls in which begin + index is a pointer into the interval's
\* block are counted, those whose comparison the language defines.
C10_CheckedIndexInside ==
    (/\ last.op = "index"
     /\ last.res = "ok"
     /\ SzLe(view.begin, view.end)
     /\ PointsIntoBlock(view, last.idx))
    => /\ last.idx >= 0
       /\ SzLt(SzAdd(view.begin, Sz(last.idx)), view.end)

====
